---- MODULE Spec2Model ----
(***************************************************************************)
(* DoubleGameVision, Source/test_two_source/App/main.cpp: the DGVApp entry *)
(* point.  main() checks its argument and the image directory, selects one *)
(* file, detects the cards of the image, brings them to one size and       *)
(* compares the objects of every pair of cards with a descriptor matcher.  *)
(*                                                                         *)
(* A card image is identified by its position in the detected sequence.    *)
(* An object contour is identified with the descriptors that               *)
(* detectAndCompute extracts from it: a sequence of descriptor values.     *)
(* Distances are in hundredths (goodDistance 0.30 is 30).                  *)
(***************************************************************************)
EXTENDS Integers, Sequences, FiniteSets, TLC

(* ---- bounds of the model ---- *)
MaxFiles == 4
MaxCards == 3
MaxObjs == 2
MaxSymbols == 4
MaxMatches == 11

(* ---- constants of the program ---- *)
goodDistance == 30
goodMatchesMinLimit == 10
FileIndex == 3

VARIABLES
    argc, pathExists, dirFiles, image, VERBOSE,
    pc, exitStatus, out, files, filesToOpen, loaded,
    cards, uniCards, card, oContours1, k, anotherCard, oContours2,
    i, j, matchFound, matchedKeypoints, goodMatches,
    segLog, compared, hist, ub, first

inputs == <<argc, pathExists, dirFiles, image>>
locals == <<files, filesToOpen, loaded, cards, uniCards, card, oContours1, k,
            anotherCard, oContours2, i, j, matchFound, matchedKeypoints,
            goodMatches>>
ghosts == <<segLog, compared, hist, ub>>
vars == <<inputs, VERBOSE, pc, exitStatus, out, locals, ghosts, first>>

(* ---- helpers ---- *)
Range(s) == {s[x] : x \in DOMAIN s}

Abs(x) == IF x < 0 THEN -x ELSE x

MinOf(S) == CHOOSE m \in S : \A x \in S : m <= x

SeqsUpTo(S, n) == UNION {[1..m -> S] : m \in 0..n}

(* ---- the input domains ---- *)
DescVals == {0, goodDistance}
KeypointCounts == {0, goodMatchesMinLimit}
Objects == {[x \in 1..n |-> v] : v \in DescVals, n \in KeypointCounts}
Cards == SeqsUpTo(Objects, MaxObjs)
\* the images of n cards that show at most t objects in all
RECURSIVE ImagesOf(_, _)
ImagesOf(n, t) ==
    IF n = 0 THEN {<<>>}
    ELSE UNION {{<<c>> \o im : im \in ImagesOf(n - 1, t - Len(c))} :
                    c \in {c \in Cards : Len(c) <= t}}

Images == UNION {ImagesOf(n, MaxSymbols) : n \in 0..MaxCards}
DistVals == {goodDistance - 1, goodDistance, goodDistance + 1}
MatchLists == SeqsUpTo(DistVals, MaxMatches)

(* ---- the external collaborators ---- *)
\* QDir::entryList: the listing of the matching files, here numbered 1..n
entryList == [x \in 1..dirFiles |-> x]

\* CardDetector::detectCards: the cards of the image, in detection order
detectCards == [x \in 1..Len(image) |-> x]

\* CardDetector::extractObjects: the contours of a card
extractObjects(c) == image[c]

\* DescriptorMatcher::match: for each query descriptor its nearest train
\* descriptor; no candidate when the train set is empty
match(train, query) ==
    IF train = <<>> THEN <<>>
    ELSE [x \in DOMAIN query |->
            MinOf({Abs(query[x] - train[y]) : y \in DOMAIN train})]

\* std::sort of the DMatch vector: ascending distance
RECURSIVE Insert(_, _)
Insert(s, d) ==
    IF s = <<>> THEN <<d>>
    ELSE IF d <= Head(s) THEN <<d>> \o s
    ELSE <<Head(s)>> \o Insert(Tail(s), d)

RECURSIVE sort(_)
sort(s) == IF s = <<>> THEN <<>> ELSE Insert(sort(Tail(s)), Head(s))

(* ---- selection of the good matches, lines 210-219 ---- *)
\* variant: a distance equal to the threshold counts as good
IsGood_Inclusive(d) == d <= goodDistance

IsGood(d) == d < goodDistance

RECURSIVE SelectGood(_)
SelectGood(mk) ==
    IF mk = <<>> THEN <<>>
    ELSE IF IsGood(Head(mk)) THEN <<Head(mk)>> \o SelectGood(Tail(mk))
    ELSE SelectGood(Tail(mk))

\* line 232
Verdict(good) == Len(good) >= goodMatchesMinLimit

(* ---- initial state ---- *)
\* What the run is given: without a path argument there is no directory, a
\* directory that does not exist lists no file, and a listing too short for
\* line 72 names no image (imread of a name outside the listing gives an
\* empty image, which shows no card).  The image of the selected file shows
\* any sequence of cards.
Inputs ==
    {[argc |-> a, pathExists |-> FALSE, dirFiles |-> 0, image |-> <<>>] :
        a \in {1, 2}}
    \cup {[argc |-> 2, pathExists |-> TRUE, dirFiles |-> n, image |-> <<>>] :
        n \in 0..MaxFiles}
    \cup {[argc |-> 2, pathExists |-> TRUE, dirFiles |-> FileIndex + 1,
            image |-> im] : im \in Images}

Start ==
    /\ exitStatus = 0
    /\ out = <<>>
    /\ files = <<>>
    /\ filesToOpen = <<>>
    /\ loaded = 0
    /\ cards = <<>>
    /\ uniCards = <<>>
    /\ card = 0
    /\ oContours1 = <<>>
    /\ k = 0
    /\ anotherCard = 0
    /\ oContours2 = <<>>
    /\ i = 0
    /\ j = 0
    /\ matchFound = FALSE
    /\ goodMatches = <<>>
    /\ segLog = <<>>
    /\ compared = <<>>
    /\ hist = <<>>
    /\ ub = {}

Init ==
    /\ \E in \in Inputs :
        /\ argc = in.argc
        /\ pathExists = in.pathExists
        /\ dirFiles = in.dirFiles
        /\ image = in.image
    \* line 25: the flag is set by the build (false, or true as at line 136)
    /\ VERBOSE \in BOOLEAN
    /\ first = <<>>
    /\ pc = "start"
    /\ matchedKeypoints = <<>>
    /\ Start

(* ---- main(), lines 46-50 ---- *)
CheckArgs ==
    /\ pc = "start"
    /\ IF argc /= 2
       THEN /\ out' = Append(out, "usage")
            /\ exitStatus' = 0
            /\ pc' = "done"
       ELSE /\ pc' = "checkPath"
            /\ UNCHANGED <<out, exitStatus>>
    /\ UNCHANGED <<inputs, VERBOSE, locals, ghosts, first>>

(* ---- lines 53-59 ---- *)
CheckPath ==
    /\ pc = "checkPath"
    /\ IF ~pathExists
       THEN /\ out' = Append(out, "pathNotFound")
            /\ exitStatus' = 1
            /\ pc' = "done"
       ELSE /\ pc' = "listFiles"
            /\ UNCHANGED <<out, exitStatus>>
    /\ UNCHANGED <<inputs, VERBOSE, locals, ghosts, first>>

(* ---- lines 61-67 ---- *)
ListFiles ==
    /\ pc = "listFiles"
    /\ files' = entryList
    /\ IF files' = <<>>
       THEN /\ out' = out \o <<"noImages", "usage">>
            /\ exitStatus' = 1
            /\ pc' = "done"
       ELSE /\ pc' = "selectFile"
            /\ UNCHANGED <<out, exitStatus>>
    /\ UNCHANGED <<inputs, VERBOSE, filesToOpen, loaded, cards, uniCards, card,
                   oContours1, k, anotherCard, oContours2, i, j, matchFound,
                   matchedKeypoints, goodMatches, ghosts, first>>

(* ---- line 72: filesToOpen = QStringList() << files[3] ---- *)
\* files[3] past the end of the list is undefined: the build aborts, or it
\* reads a string that is no element of the listing (here 0), names no image
\* and is handed on.
SelectFile ==
    /\ pc = "selectFile"
    /\ IF FileIndex < Len(files)
       THEN /\ filesToOpen' = <<files[FileIndex + 1]>>
            /\ pc' = "loadImage"
            /\ ub' = ub
       ELSE /\ ub' = ub \cup {"files"}
            /\ \/ /\ pc' = "crashed"
                  /\ filesToOpen' = filesToOpen
               \/ /\ pc' = "loadImage"
                  /\ filesToOpen' = <<0>>
    /\ UNCHANGED <<inputs, VERBOSE, exitStatus, out, files, loaded, cards,
                   uniCards, card, oContours1, k, anotherCard, oContours2, i, j,
                   matchFound, matchedKeypoints, goodMatches, segLog, compared,
                   hist, first>>

(* ---- lines 80-101: foreach file, imread and resize ---- *)
LoadImage ==
    /\ pc = "loadImage"
    /\ filesToOpen /= <<>>
    /\ out' = Append(out, "openFile")
    /\ loaded' = loaded + 1
    /\ pc' = "detectCards"
    /\ UNCHANGED <<inputs, VERBOSE, exitStatus, files, filesToOpen, cards,
                   uniCards, card, oContours1, k, anotherCard, oContours2, i, j,
                   matchFound, matchedKeypoints, goodMatches, ghosts, first>>

(* variant of lines 104-109: no return on an empty detection *)
DetectCards_NoReturn ==
    /\ pc = "detectCards"
    /\ cards' = detectCards
    /\ pc' = "uniformSize"
    /\ UNCHANGED <<inputs, VERBOSE, exitStatus, out, files, filesToOpen, loaded,
                   uniCards, card, oContours1, k, anotherCard, oContours2, i, j,
                   matchFound, matchedKeypoints, goodMatches, ghosts, first>>

(* ---- lines 104-109 ---- *)
DetectCards ==
    /\ pc = "detectCards"
    /\ cards' = detectCards
    /\ IF cards' = <<>>
       THEN /\ out' = Append(out, "noCards")
            /\ exitStatus' = 0
            /\ pc' = "done"
       ELSE /\ pc' = "uniformSize"
            /\ UNCHANGED <<out, exitStatus>>
    /\ UNCHANGED <<inputs, VERBOSE, files, filesToOpen, loaded, uniCards, card,
                   oContours1, k, anotherCard, oContours2, i, j, matchFound,
                   matchedKeypoints, goodMatches, ghosts, first>>

(* ---- lines 112-134: uniformSize keeps the cards and their order ---- *)
UniformSize ==
    /\ pc = "uniformSize"
    /\ out' = Append(out, "uniformSize")
    /\ uniCards' = cards
    /\ pc' = "takeCard"
    /\ UNCHANGED <<inputs, VERBOSE, exitStatus, files, filesToOpen, loaded,
                   cards, card, oContours1, k, anotherCard, oContours2, i, j,
                   matchFound, matchedKeypoints, goodMatches, ghosts, first>>

(* variant of lines 137-147: the foreach starts after the first of the *)
(* remaining cards                                                      *)
TakeCard_SkipOne ==
    /\ pc = "takeCard"
    /\ IF uniCards = <<>>
       THEN /\ pc' = "done"
            /\ exitStatus' = 0
            /\ UNCHANGED <<uniCards, card, oContours1, k, segLog>>
       ELSE /\ card' = Head(uniCards)
            /\ uniCards' = Tail(uniCards)
            /\ IF uniCards' = <<>>
               THEN /\ pc' = "done"
                    /\ exitStatus' = 0
                    /\ UNCHANGED <<oContours1, k, segLog>>
               ELSE /\ oContours1' = extractObjects(card')
                    /\ segLog' = Append(segLog, card')
                    /\ k' = 1
                    /\ pc' = "anotherCard"
                    /\ exitStatus' = exitStatus
    /\ UNCHANGED <<inputs, VERBOSE, out, files, filesToOpen, loaded, cards,
                   anotherCard, oContours2, i, j, matchFound, matchedKeypoints,
                   goodMatches, compared, hist, ub, first>>

(* ---- lines 137-147 and 292: head of the while loop ---- *)
TakeCard ==
    /\ pc = "takeCard"
    /\ IF uniCards = <<>>
       THEN /\ pc' = "done"
            /\ exitStatus' = 0
            /\ UNCHANGED <<uniCards, card, oContours1, k, segLog>>
       ELSE /\ card' = Head(uniCards)
            /\ uniCards' = Tail(uniCards)
            /\ IF uniCards' = <<>>
               THEN /\ pc' = "done"
                    /\ exitStatus' = 0
                    /\ UNCHANGED <<oContours1, k, segLog>>
               ELSE /\ oContours1' = extractObjects(card')
                    /\ segLog' = Append(segLog, card')
                    /\ k' = 0
                    /\ pc' = "anotherCard"
                    /\ exitStatus' = exitStatus
    /\ UNCHANGED <<inputs, VERBOSE, out, files, filesToOpen, loaded, cards,
                   anotherCard, oContours2, i, j, matchFound, matchedKeypoints,
                   goodMatches, compared, hist, ub, first>>

(* ---- lines 150-159: foreach anotherCard of the remaining cards ---- *)
AnotherCard ==
    /\ pc = "anotherCard"
    /\ IF k >= Len(uniCards)
       THEN /\ pc' = "takeCard"
            /\ UNCHANGED <<k, anotherCard, oContours2, i, segLog, compared>>
       ELSE /\ anotherCard' = uniCards[k + 1]
            /\ k' = k + 1
            /\ oContours2' = extractObjects(anotherCard')
            /\ segLog' = Append(segLog, anotherCard')
            /\ compared' = Append(compared, <<card, anotherCard'>>)
            /\ i' = 0
            /\ pc' = "object1"
    /\ UNCHANGED <<inputs, VERBOSE, exitStatus, out, files, filesToOpen, loaded,
                   cards, uniCards, card, oContours1, j, matchFound,
                   matchedKeypoints, goodMatches, hist, ub, first>>

(* ---- lines 162-182 and 286: loop on the objects of the card ---- *)
Object1 ==
    /\ pc = "object1"
    /\ IF i >= Len(oContours1)
       THEN /\ pc' = "anotherCard"
            /\ UNCHANGED <<j, matchFound>>
       ELSE /\ matchFound' = FALSE
            /\ j' = 0
            /\ pc' = "object2"
    /\ UNCHANGED <<inputs, VERBOSE, exitStatus, out, files, filesToOpen, loaded,
                   cards, uniCards, card, oContours1, k, anotherCard, oContours2,
                   i, matchedKeypoints, goodMatches, ghosts, first>>

(* ---- lines 207-230: what VERBOSE adds to one comparison ---- *)
VerboseTrace == IF VERBOSE THEN <<"minMax", "goodCount", "display">> ELSE <<>>

\* line 207 reads matchedKeypoints[0] and matchedKeypoints[size()-1]
ReadsPastEnd(mk) == VERBOSE /\ mk = <<>>

(* ---- lines 185-246: loop on the objects of the other card ---- *)
Object2 ==
    /\ pc = "object2"
    /\ IF j >= Len(oContours2)
       THEN /\ pc' = "afterObject2"
            /\ UNCHANGED <<j, matchFound, matchedKeypoints, goodMatches, out,
                           hist, ub>>
       ELSE LET raw == match(oContours1[i + 1], oContours2[j + 1])
                mk == sort(raw)
                good == SelectGood(mk)
            IN  /\ matchedKeypoints' = mk
                /\ ub' = IF ReadsPastEnd(mk) THEN ub \cup {"matches"} ELSE ub
                /\ \/ /\ ReadsPastEnd(mk)
                      /\ pc' = "crashed"
                      /\ UNCHANGED <<j, matchFound, goodMatches, out, hist>>
                   \/ /\ goodMatches' = good
                      /\ hist' = Append(hist,
                            [a |-> card, b |-> anotherCard, i |-> i, j |-> j,
                             dists |-> raw, match |-> Verdict(good)])
                      /\ IF Verdict(good)
                         THEN /\ matchFound' = TRUE
                              /\ out' = out \o VerboseTrace \o <<"match">>
                              /\ pc' = "afterObject2"
                              /\ j' = j
                         ELSE /\ out' = out \o VerboseTrace
                              /\ j' = j + 1
                              /\ pc' = "object2"
                              /\ matchFound' = matchFound
    /\ UNCHANGED <<inputs, VERBOSE, exitStatus, files, filesToOpen, loaded,
                   cards, uniCards, card, oContours1, k, anotherCard, oContours2,
                   i, segLog, compared, first>>

(* variant of lines 277-283: no break when a match was found *)
AfterObject2_NoBreak ==
    /\ pc = "afterObject2"
    /\ i' = i + 1
    /\ pc' = "object1"
    /\ UNCHANGED <<inputs, VERBOSE, exitStatus, out, files, filesToOpen, loaded,
                   cards, uniCards, card, oContours1, k, anotherCard, oContours2,
                   j, matchFound, matchedKeypoints, goodMatches, ghosts, first>>

(* variant of lines 277-283: return from main() when a match was found *)
AfterObject2_Return ==
    /\ pc = "afterObject2"
    /\ IF matchFound
       THEN /\ pc' = "done"
            /\ i' = i
       ELSE /\ i' = i + 1
            /\ pc' = "object1"
    /\ UNCHANGED <<inputs, VERBOSE, exitStatus, out, files, filesToOpen, loaded,
                   cards, uniCards, card, oContours1, k, anotherCard, oContours2,
                   j, matchFound, matchedKeypoints, goodMatches, ghosts, first>>

(* ---- lines 277-283: end of the body of the loop on i ---- *)
AfterObject2 ==
    /\ pc = "afterObject2"
    /\ IF matchFound
       THEN /\ pc' = "anotherCard"
            /\ i' = i
       ELSE /\ i' = i + 1
            /\ pc' = "object1"
    /\ UNCHANGED <<inputs, VERBOSE, exitStatus, out, files, filesToOpen, loaded,
                   cards, uniCards, card, oContours1, k, anotherCard, oContours2,
                   j, matchFound, matchedKeypoints, goodMatches, ghosts, first>>

Next ==
    \/ CheckArgs
    \/ CheckPath
    \/ ListFiles
    \/ SelectFile
    \/ LoadImage
    \/ DetectCards
    \/ UniformSize
    \/ TakeCard
    \/ AnotherCard
    \/ Object1
    \/ Object2
    \/ AfterObject2

Spec == Init /\ [][Next]_vars

Terminated == pc \in {"done", "crashed"}

(* ---- two runs on the same inputs, one for each value of VERBOSE ---- *)
Outcome ==
    [pc |-> pc, exitStatus |-> exitStatus, loaded |-> loaded, cards |-> cards,
     segLog |-> segLog, compared |-> compared, hist |-> hist]

Rerun ==
    /\ Terminated
    /\ first = <<>>
    /\ first' = <<Outcome>>
    /\ VERBOSE' = ~VERBOSE
    /\ pc' = "start"
    /\ exitStatus' = 0
    /\ out' = <<>>
    /\ files' = <<>>
    /\ filesToOpen' = <<>>
    /\ loaded' = 0
    /\ cards' = <<>>
    /\ uniCards' = <<>>
    /\ card' = 0
    /\ oContours1' = <<>>
    /\ k' = 0
    /\ anotherCard' = 0
    /\ oContours2' = <<>>
    /\ i' = 0
    /\ j' = 0
    /\ matchFound' = FALSE
    /\ matchedKeypoints' = <<>>
    /\ goodMatches' = <<>>
    /\ segLog' = <<>>
    /\ compared' = <<>>
    /\ hist' = <<>>
    /\ ub' = {}
    /\ UNCHANGED inputs

NextPair == Next \/ Rerun

SpecPair == Init /\ [][NextPair]_vars

(* ---- one comparison of two objects, lines 205-246, on the candidate ---- *)
(* ---- pairs the matcher returned                                     ---- *)
InitMatch ==
    /\ argc = 2
    /\ pathExists = TRUE
    /\ dirFiles = MaxFiles
    /\ image = <<>>
    /\ VERBOSE = FALSE
    /\ first = <<>>
    /\ pc = "unit"
    /\ matchedKeypoints \in MatchLists
    /\ Start

MatchObjects ==
    /\ pc = "unit"
    /\ matchedKeypoints' = sort(matchedKeypoints)
    /\ goodMatches' = SelectGood(matchedKeypoints')
    /\ matchFound' = Verdict(goodMatches')
    /\ hist' = Append(hist,
          [a |-> card, b |-> anotherCard, i |-> i, j |-> j,
           dists |-> matchedKeypoints, match |-> matchFound'])
    /\ out' = IF matchFound' THEN Append(out, "match") ELSE out
    /\ pc' = "unitDone"
    /\ UNCHANGED <<inputs, VERBOSE, exitStatus, files, filesToOpen, loaded,
                   cards, uniCards, card, oContours1, k, anotherCard, oContours2,
                   i, j, segLog, compared, ub, first>>

NextMatch == MatchObjects

SpecMatch == InitMatch /\ [][NextMatch]_vars

(***************************************************************************)
(* The claims                                                              *)
(***************************************************************************)
PairOf(e) == <<e.a, e.b>>

CountBelow(ds) == Cardinality({x \in DOMAIN ds : ds[x] < goodDistance})

AllPairs(n) == {<<a, b>> : a \in 1..n, b \in 1..n} \ {<<a, b>> \in (1..n) \X (1..n) : a >= b}

\* C1: within one card pair, a match verdict is the last object comparison
\* of that pair (no later object of B against object i, no later object of
\* A against any object of B), and the run goes on with the next card pair:
\* while matchFound is set no object comparison is under way.
C1_EarlyExit ==
    /\ \A x \in DOMAIN hist : hist[x].match =>
          \A y \in DOMAIN hist : y > x => PairOf(hist[y]) /= PairOf(hist[x])
    /\ matchFound =>
          /\ pc \in {"afterObject2", "anotherCard", "object1", "takeCard", "done"}
          /\ pc = "object1" => i = 0

C1_Witness ==
    \E x \in DOMAIN hist :
        /\ hist[x].match
        /\ hist[x].i + 1 < Len(image[hist[x].a])
        /\ hist[x].j + 1 < Len(image[hist[x].b])
        /\ compared[Len(compared)] /= PairOf(hist[x])

\* C2: the verdict of an object comparison is 'match' exactly when at least
\* goodMatchesMinLimit candidate pairs have a distance strictly below
\* goodDistance; a distance equal to goodDistance is not selected as good.
C2_Verdict ==
    /\ \A x \in DOMAIN hist :
          hist[x].match <=> CountBelow(hist[x].dists) >= goodMatchesMinLimit
    /\ pc = "unitDone" =>
          /\ Len(goodMatches) = CountBelow(hist[Len(hist)].dists)
          /\ goodDistance \notin Range(goodMatches)

C2_Witness ==
    /\ pc = "unitDone"
    /\ matchFound
    /\ Len(goodMatches) = goodMatchesMinLimit
    /\ goodDistance \in Range(matchedKeypoints)

\* C3: a run that ends on a configuration error (argument missing, path not
\* found, no image file in the path) has printed the usage message, exits
\* with a non-zero status and has loaded no image.
ConfigError == argc /= 2 \/ ~pathExists \/ dirFiles = 0

C3_ConfigError ==
    (pc = "done" /\ ConfigError) =>
        /\ "usage" \in Range(out)
        /\ exitStatus /= 0
        /\ loaded = 0

\* C4: when detectCards has returned no card, the run has reported
\* "No cards found" and ended with status 0, and nothing was normalized,
\* segmented or compared.
Detected == loaded > 0 /\ pc /= "detectCards"

C4_NoCards ==
    (Detected /\ cards = <<>>) =>
        /\ pc = "done"
        /\ exitStatus = 0
        /\ "noCards" \in Range(out)
        /\ "uniformSize" \notin Range(out)
        /\ uniCards = <<>>
        /\ segLog = <<>>
        /\ compared = <<>>
        /\ hist = <<>>

C4_Witness ==
    /\ Detected
    /\ cards = <<>>
    /\ FileIndex < Len(files)
    /\ filesToOpen = <<files[FileIndex + 1]>>
    /\ pc = "done"

\* C5: a comparison in which one of the two objects has no keypoint gives
\* 'no match' and makes no invalid access, whatever VERBOSE is.
NoKeypoints(e) == image[e.a][e.i + 1] = <<>> \/ image[e.b][e.j + 1] = <<>>

C5_ZeroKeypoints ==
    /\ "matches" \notin ub
    /\ \A x \in DOMAIN hist : NoKeypoints(hist[x]) => ~hist[x].match

\* C6: once extractObjects has returned no object for a card, no card is
\* segmented and no card pair or object pair is compared any more.
EmptySegmented == \E x \in DOMAIN segLog : image[segLog[x]] = <<>>

C6_AbortOnEmpty ==
    [][EmptySegmented =>
         (segLog' = segLog /\ compared' = compared /\ hist' = hist)]_vars

\* C7: the run with VERBOSE set and the run with VERBOSE clear, on the same
\* inputs, compare the same card pairs and object pairs, give the same
\* verdicts and end the same way.
SameDetection == loaded > 0 /\ first[1].loaded > 0 /\ first[1].cards = cards

C7_VerboseIrrelevant ==
    (Terminated /\ first /= <<>> /\ SameDetection) =>
        /\ first[1].segLog = segLog
        /\ first[1].compared = compared
        /\ first[1].hist = hist
        /\ first[1].pc = pc
        /\ first[1].exitStatus = exitStatus

\* C8: the card pairs are compared in sequence order, card A before card B,
\* no card with itself and no pair twice; when the loop has ended each of the
\* n(n-1)/2 pairs has been compared; and the run ends.
Normalized == "uniformSize" \in Range(out)

PairsInOrder ==
    \A x, y \in DOMAIN compared : x < y =>
        \/ compared[x][1] < compared[y][1]
        \/ compared[x][1] = compared[y][1] /\ compared[x][2] < compared[y][2]

C8_Pairs ==
    /\ \A x \in DOMAIN compared : compared[x][1] < compared[x][2]
    /\ PairsInOrder
    /\ (pc = "done" /\ Normalized) =>
          /\ Len(compared) = (Len(cards) * (Len(cards) - 1)) \div 2
          /\ Range(compared) = AllPairs(Len(cards))

\* what is left to do, as a number that every step of main() makes smaller:
\* the stages before the loop, then the cards left, the other cards left,
\* the objects of the card left and the objects of the other card left
RankBase == MaxCards + MaxObjs + 4

StageRank ==
    CASE pc = "start" -> 7
      [] pc = "checkPath" -> 6
      [] pc = "listFiles" -> 5
      [] pc = "selectFile" -> 4
      [] pc = "loadImage" -> 3
      [] pc = "detectCards" -> 2
      [] pc = "uniformSize" -> 1
      [] OTHER -> 0

CardsRank == IF pc = "takeCard" THEN 0 ELSE 1 + Len(uniCards) - k

ObjectsRank ==
    IF pc \in {"takeCard", "anotherCard"} THEN 0 ELSE 1 + Len(oContours1) - i

OtherObjectsRank ==
    CASE pc = "object1" -> Len(oContours2) + 2
      [] pc = "object2" -> Len(oContours2) - j + 1
      [] OTHER -> 0

Rank ==
    IF Terminated THEN 0
    ELSE 1 + OtherObjectsRank + RankBase * (ObjectsRank + RankBase *
            (CardsRank + RankBase * (Len(uniCards) + RankBase * StageRank)))

C8_AllPairsOnce == [](C8_Pairs /\ Rank >= 0) /\ [][Rank' < Rank]_vars

C8_Witness ==
    /\ pc = "done"
    /\ Len(cards) = MaxCards
    /\ Len(compared) >= 3

\* C9 as stated: a match verdict is the last comparison of the whole run,
\* no further card pair is compared after it.
C9_StopAtFirst ==
    \A x \in DOMAIN hist : hist[x].match =>
        /\ x = Len(hist)
        /\ compared[Len(compared)] = PairOf(hist[x])

\* C9 amended: the stop at first success is per card pair only: a card pair
\* yields at most one match verdict, and a run in which a match was found
\* still ends only when every card pair has been compared.
C9_StopPerPair ==
    /\ \A x, y \in DOMAIN hist :
          (hist[x].match /\ hist[y].match /\ PairOf(hist[x]) = PairOf(hist[y]))
              => x = y
    /\ (pc = "done" /\ \E x \in DOMAIN hist : hist[x].match) =>
          Range(compared) = AllPairs(Len(cards))

C9_Witness ==
    /\ pc = "done"
    /\ hist /= <<>>
    /\ hist[1].match
    /\ Len(compared) > 1
    /\ PairOf(hist[Len(hist)]) /= PairOf(hist[1])

\* C10: when the listing is not empty, the index that selects the file is
\* within the listing and the selected file is an element of it.
C10_IndexInBounds ==
    /\ files /= <<>> => FileIndex + 1 \in DOMAIN files
    /\ \A f \in Range(filesToOpen) : f \in Range(files)

====
